---- MODULE Spec2Model ----
(***************************************************************************)
(* Client-state model of the Phone CRM front-end (src/src/App.jsx): the    *)
(* session kept in localStorage, the React state of App, the closures the  *)
(* effects and handlers capture, the HTTP requests in flight, and the REST *)
(* backend the requests talk to (an external collaborator, modelled from   *)
(* its contract).                                                          *)
(*                                                                         *)
(* One action is one browser task: an event handler or a promise           *)
(* continuation together with the render it causes and the effects that    *)
(* render runs.  A closure created by a render sees that render's state;   *)
(* where a closure outlives its render (the debounce timer, the            *)
(* continuation of an awaited request) the captured values are kept in the *)
(* state.                                                                  *)
(***************************************************************************)
EXTENDS Integers, Sequences, FiniteSets, Bags, TLC

\* ------------------------------------------------------------------ bounds
\* Rows per page.  The source asks for 500 rows per page (App.jsx:118); the
\* model scales the page down so that full and short pages both occur.
limit == 2
\* Largest page the scroll sentinel may reach.
MaxPage == 2
\* Requests in flight at once.
MaxInFlight == 3
\* Largest id the backend hands out.
MaxId == 5
\* Inline edits made over a run.
MaxEdits == 2
\* addItems batches started per page load.
MaxAdds == 1
\* Largest count accepted at the prompt in the model.
MaxCreate == 2
\* Clock step, in milliseconds.
TickMs == 250
\* User inputs (clicks, keystrokes, scroll reports) over a run.
MaxClicks == 2

\* -------------------------------------------------------- program constants
DebounceMs == 500
ConfirmAbove == 100

Tabs == {"yangi", "koreyskiy"}
InitialTab == "yangi"
Fields == {"fio", "sana", "model", "imei", "gb",
           "purchase_price", "sold_date", "sale_price"}
StatsFields == {"purchase_price", "sale_price", "sold_date"}

\* Inputs: search texts, field values, login tokens, HTTP outcomes
\* (0 stands for a network error, which carries no response).
Searches == {"", "x"}
Values == {"", "x"}
NoToken == "null"
Tokens == {"tok"}
\* res.data.token as a login response may carry it: a token or, from a
\* backend that sends none, the empty string.
ResponseTokens == Tokens \cup {""}
Statuses == {200, 401, 403, 500, 0}

Min(a, b) == IF a < b THEN a ELSE b
Max(a, b) == IF a > b THEN a ELSE b

\* The test as it would be if it only looked for a missing entry.
TruthyNotNull(t) == t # NoToken

\* !!value for a localStorage entry: null and "" are falsy.
Truthy(t) == t # NoToken /\ t # ""

\* ---------------------------------------------------------------- parseInt
\* Prompt inputs are sequences of characters.
Digits == <<"0", "1", "2", "3", "4", "5", "6", "7", "8", "9">>
IsDigit(c) == \E i \in 1..10 : Digits[i] = c
DigitVal(c) == (CHOOSE i \in 1..10 : Digits[i] = c) - 1
IsSpace(c) == c = " "

RECURSIVE SkipSpaces(_)
SkipSpaces(s) ==
    IF s # <<>> /\ IsSpace(Head(s)) THEN SkipSpaces(Tail(s)) ELSE s

RECURSIVE ReadDigits(_, _, _)
\* <<number of digits read, value>> of the longest digit prefix of s
ReadDigits(s, n, acc) ==
    IF s # <<>> /\ IsDigit(Head(s))
    THEN ReadDigits(Tail(s), n + 1, acc * 10 + DigitVal(Head(s)))
    ELSE <<n, acc>>

NaN == [nan |-> TRUE, val |-> 0]
parseInt(str) ==
    LET s1 == SkipSpaces(str)
        neg == s1 # <<>> /\ Head(s1) = "-"
        s2 == IF s1 # <<>> /\ Head(s1) \in {"-", "+"} THEN Tail(s1) ELSE s1
        r == ReadDigits(s2, 0, 0)
    IN  IF r[1] = 0 THEN NaN
        ELSE [nan |-> FALSE, val |-> IF neg THEN 0 - r[2] ELSE r[2]]
isNaN(n) == n.nan

NullInput == <<"null">>
PromptInputs == { <<"0">>, <<"-", "3">>, <<"a">>, <<>>, <<"2", "a">>,
                  <<"1">>, <<"2">>, <<" ", "1">>, <<"1", "0", "1">> }

\* ----------------------------------------------------------------- backend
\* The REST collaborator (spec section 6).  db is its table, ordered by id.
DefaultVals == [f \in Fields |-> ""]
NewRow(id, tab) == [id |-> id, tab |-> tab, vals |-> DefaultVals]
InitialDb == << [id |-> 1, tab |-> "yangi",
                 vals |-> [DefaultVals EXCEPT !["fio"] = "x", !["sold_date"] = "x"]],
                NewRow(2, "yangi"),
                NewRow(3, "yangi") >>

Matches(row, s) == s = "" \/ row.vals["fio"] = s

ListRows(d, tab, s, lim, offset) ==
    LET all == SelectSeq(d, LAMBDA r : r.tab = tab /\ Matches(r, s))
    IN  SubSeq(all, offset + 1, Min(Len(all), offset + lim))

NoStats == [tab |-> "none", total_rows_count |-> 0]
StatsOf(d, tab) ==
    [tab |-> tab,
     total_rows_count |-> Len(SelectSeq(d, LAMBDA r : r.tab = tab))]

HasId(d, id) == \E i \in 1..Len(d) : d[i].id = id
RowOf(d, id) == d[CHOOSE i \in 1..Len(d) : d[i].id = id]
DbUpdate(d, id, field, value) ==
    [i \in 1..Len(d) |->
        IF d[i].id = id THEN [d[i] EXCEPT !.vals[field] = value] ELSE d[i]]
DbDelete(d, id) == SelectSeq(d, LAMBDA r : r.id # id)
DbReturn(d, id) ==
    [i \in 1..Len(d) |->
        IF d[i].id = id
        THEN [d[i] EXCEPT !.vals["sold_date"] = "", !.vals["sale_price"] = ""]
        ELSE d[i]]

\* ---------------------------------------------------------------- requests
NoReq == [kind |-> "none", tab |-> "", search |-> "", page |-> 0,
          reset |-> FALSE, id |-> 0, field |-> "", value |-> "",
          batch |-> 0, idx |-> 0, auth |-> NoToken]

\* The request interceptor: the Authorization header of an outgoing request.
AuthHeader(tok) == IF Truthy(tok) THEN tok ELSE NoToken

LoginReq(tok) == [NoReq EXCEPT !.kind = "login", !.auth = AuthHeader(tok)]
ListReq(tok, tab, s, pageNum, reset) ==
    [NoReq EXCEPT !.kind = "list", !.tab = tab, !.search = s,
                  !.page = pageNum, !.reset = reset,
                  !.auth = AuthHeader(tok)]
StatsReq(tok, tab) ==
    [NoReq EXCEPT !.kind = "stats", !.tab = tab, !.auth = AuthHeader(tok)]

\* The requests in flight are a bag: responses arrive in any order.
One(r) == SetToBag({r})
RECURSIVE Sent(_)
Sent(reqs) == IF reqs = <<>> THEN EmptyBag
              ELSE One(Head(reqs)) (+) Sent(Tail(reqs))
Remove(b, r) == b (-) One(r)
OfKind(b, k) == {r \in BagToSet(b) : r.kind = k}
InFlight(b, k) == BagCardinality([r \in OfKind(b, k) |-> b[r]])

\* The interceptor as it would be with the 403 test left out.
IsAuthFailureOnly401(status) == status = 401

\* The response interceptor's test: an error response with status 401 or 403.
IsAuthFailure(status) == status = 401 \/ status = 403

VARIABLES
    token, loginFlag,                 \* localStorage
    isLoggedIn, loginError,           \* login state
    activeTab, items, stats, search,  \* app state
    loading, page, hasMore,
    timer,                            \* the debounce timer and its closure
    adds,                             \* addItems calls awaiting Promise.all
    net,                              \* requests in flight
    db, nextId,                       \* the backend
    alert,                            \* alert shown by the last task
    ev,                               \* the last task
    sinceSearch,                      \* ms since the search effect last ran
    edits,                            \* inline edits made so far, with outcome
    clicks                            \* user inputs made so far

vars == <<token, loginFlag, isLoggedIn, loginError, activeTab, items, stats,
          search, loading, page, hasMore, timer, adds, net, db, nextId,
          alert, ev, sinceSearch, edits, clicks>>

NoTimer == [armed |-> FALSE, left |-> 0, loading |-> FALSE,
            tab |-> "", search |-> ""]
\* setTimeout(..., 500) by a render whose state is (ld, tab, s)
ArmTimer(ld, tab, s) == [armed |-> TRUE, left |-> DebounceMs, loading |-> ld,
                         tab |-> tab, search |-> s]

Event(op, kind, status, input) ==
    [op |-> op, kind |-> kind, status |-> status, input |-> input]

\* fetchItems as called from a closure whose render saw loading = ld:
\* the requests it issues.
fetchItems(ld, tok, tab, s, pageNum, reset) ==
    IF ld THEN <<>> ELSE <<ListReq(tok, tab, s, pageNum, reset)>>
\* fetchStats as it would be if it always asked for the initial tab.
fetchStatsInitialTab(tok, tab) == <<StatsReq(tok, InitialTab)>>

\* fetchStats as called from a closure whose render saw activeTab = tab.
fetchStats(tok, tab) == <<StatsReq(tok, tab)>>

\* A page load: useState initialisers and the effects of the first render.
\* It abandons the requests, timers and continuations of the old page.
PageLoad(tok) ==
    LET li == Truthy(tok) IN
    /\ isLoggedIn' = li
    /\ loginError' = FALSE
    /\ activeTab' = InitialTab
    /\ items' = <<>>
    /\ stats' = NoStats
    /\ search' = ""
    /\ page' = 0
    /\ hasMore' = TRUE
    /\ adds' = <<>>
    /\ sinceSearch' = 0
    /\ IF li
       THEN /\ loading' = TRUE
            /\ net' = Sent(fetchItems(FALSE, tok, InitialTab, "", 0, TRUE)
                           \o fetchStats(tok, InitialTab))
            /\ timer' = ArmTimer(FALSE, InitialTab, "")
       ELSE /\ loading' = FALSE
            /\ net' = EmptyBag
            /\ timer' = NoTimer

\* The browser opens the page with or without a token left in localStorage
\* by an earlier visit; the state is that of PageLoad.
Init ==
    \E tok \in {NoToken} \cup Tokens :
        /\ token = tok
        /\ loginFlag = Truthy(tok)
        /\ isLoggedIn = Truthy(tok)
        /\ loginError = FALSE
        /\ activeTab = InitialTab
        /\ items = <<>>
        /\ stats = NoStats
        /\ search = ""
        /\ page = 0
        /\ hasMore = TRUE
        /\ adds = <<>>
        /\ sinceSearch = 0
        /\ loading = Truthy(tok)
        /\ net = IF Truthy(tok)
                 THEN Sent(fetchItems(FALSE, tok, InitialTab, "", 0, TRUE)
                           \o fetchStats(tok, InitialTab))
                 ELSE EmptyBag
        /\ timer = IF Truthy(tok) THEN ArmTimer(FALSE, InitialTab, "")
                   ELSE NoTimer
        /\ db = InitialDb
        /\ nextId = 4
        /\ alert = "none"
        /\ ev = Event("load", "", 0, <<>>)
        /\ edits = <<>>
        /\ clicks = 0

\* The response interceptor's error branch for a 401/403: credentials are
\* removed and the page reloads.
ForcedLogout ==
    /\ token' = NoToken
    /\ loginFlag' = FALSE
    /\ PageLoad(NoToken)

\* ------------------------------------------------------------------ session
HandleLogin ==
    /\ ~isLoggedIn
    /\ BagCardinality(net) < MaxInFlight
    /\ net' = net (+) One(LoginReq(token))
    /\ alert' = "none"
    /\ ev' = Event("input", "", 0, <<>>)
    /\ clicks < MaxClicks
    /\ clicks' = clicks + 1
    /\ UNCHANGED <<token, loginFlag, isLoggedIn, loginError, activeTab, items,
                   stats, search, loading, page, hasMore, timer, adds, db,
                   nextId, sinceSearch, edits>>

LoginResponse ==
    \E req \in OfKind(net, "login"), status \in Statuses,
       tok \in ResponseTokens :
        /\ alert' = "none"
        /\ ev' = Event("response", "login", status, <<>>)
        /\ UNCHANGED <<db, nextId, edits, clicks>>
        /\ IF status = 200
           THEN /\ token' = tok
                /\ loginFlag' = TRUE
                /\ PageLoad(tok)
           ELSE IF IsAuthFailure(status)
           THEN ForcedLogout
           ELSE /\ loginError' = TRUE
                /\ net' = Remove(net, req)
                /\ UNCHANGED <<token, loginFlag, isLoggedIn, activeTab, items,
                               stats, search, loading, page, hasMore, timer,
                               adds, sinceSearch>>

HandleLogout ==
    /\ isLoggedIn
    /\ token' = NoToken
    /\ loginFlag' = FALSE
    /\ PageLoad(NoToken)
    /\ alert' = "none"
    /\ ev' = Event("input", "", 0, <<>>)
    /\ clicks < MaxClicks
    /\ clicks' = clicks + 1
    /\ UNCHANGED <<db, nextId, edits>>

\* ------------------------------------------------------- fetch orchestrator
\* Tab button: setActiveTab(tab), then the [activeTab, isLoggedIn] effect of
\* the render that follows.
SetActiveTab ==
    \E tab \in Tabs \ {activeTab} :
        LET reqs == fetchItems(loading, token, tab, search, 0, TRUE)
                    \o fetchStats(token, tab)
        IN  /\ isLoggedIn
            /\ BagCardinality(net) + Len(reqs) <= MaxInFlight
            /\ activeTab' = tab
            /\ items' = <<>>
            /\ page' = 0
            /\ hasMore' = TRUE
            /\ loading' = TRUE
            /\ net' = net (+) Sent(reqs)
            /\ alert' = "none"
            /\ ev' = Event("input", "", 0, <<>>)
            /\ clicks < MaxClicks
            /\ clicks' = clicks + 1
            /\ UNCHANGED <<token, loginFlag, isLoggedIn, loginError, stats,
                           search, timer, adds, db, nextId, sinceSearch, edits>>

\* The [search] effect as it would be without its cleanup: a pending timer
\* keeps running towards its original deadline.
SearchEffectNoCleanup(old, ld, tab, s) ==
    IF old.armed THEN [old EXCEPT !.search = s] ELSE ArmTimer(ld, tab, s)

\* The [search] effect: its cleanup clears the pending timer, then a new
\* timer is set whose callback closes over the render (ld, tab, s).
SearchEffect(old, ld, tab, s) == ArmTimer(ld, tab, s)

\* Search box: setSearch(text), then the [search] effect.
SetSearch ==
    \E s \in Searches \ {search} :
        /\ isLoggedIn
        /\ search' = s
        /\ timer' = SearchEffect(timer, loading, activeTab, s)
        /\ sinceSearch' = 0
        /\ alert' = "none"
        /\ ev' = Event("input", "", 0, <<>>)
        /\ clicks < MaxClicks
        /\ clicks' = clicks + 1
        /\ UNCHANGED <<token, loginFlag, isLoggedIn, loginError, activeTab,
                       items, stats, loading, page, hasMore, adds, net, db,
                       nextId, edits>>

\* Time passes while a timer is pending.
Tick ==
    /\ timer.armed
    /\ timer.left > 0
    /\ timer' = [timer EXCEPT !.left = Max(0, timer.left - TickMs)]
    /\ sinceSearch' = Min(DebounceMs, sinceSearch + TickMs)
    /\ alert' = "none"
    /\ ev' = Event("input", "", 0, <<>>)
    /\ UNCHANGED clicks
    /\ UNCHANGED <<token, loginFlag, isLoggedIn, loginError, activeTab, items,
                   stats, search, loading, page, hasMore, adds, net, db,
                   nextId, edits>>

\* The debounce callback, run with the closure of the render that set it.
DebounceFire ==
    LET reqs == fetchItems(timer.loading, token, timer.tab, timer.search,
                           0, TRUE)
    IN  /\ timer.armed
        /\ timer.left = 0
        /\ BagCardinality(net) < MaxInFlight
        /\ items' = <<>>
        /\ page' = 0
        /\ hasMore' = TRUE
        /\ loading' = IF reqs = <<>> THEN loading ELSE TRUE
        /\ net' = net (+) Sent(reqs)
        /\ timer' = NoTimer
        /\ alert' = "none"
        /\ ev' = Event("debounce", "", 0, <<>>)
        /\ UNCHANGED clicks
        /\ UNCHANGED <<token, loginFlag, isLoggedIn, loginError, activeTab,
                       stats, search, adds, db, nextId, sinceSearch, edits>>

\* The observer's test as it would be without the hasMore conjunct.
ObserverIgnoresHasMore(isIntersecting, hm, ld) == isIntersecting /\ ~ld

\* The IntersectionObserver callback's test.  The observer is rebuilt by
\* every render that changes hasMore or loading, so hm and ld are current.
ObserverFires(isIntersecting, hm, ld) == isIntersecting /\ hm /\ ~ld

\* The sentinel reports; on a page increment the [page] effect of the
\* render that follows calls fetchItems(page).
Intersect ==
    \E isIntersecting \in BOOLEAN :
        /\ isLoggedIn
        /\ page < MaxPage
        /\ BagCardinality(net) < MaxInFlight
        /\ IF ObserverFires(isIntersecting, hasMore, loading)
           THEN LET reqs == IF page + 1 > 0
                            THEN fetchItems(loading, token, activeTab, search,
                                            page + 1, FALSE)
                            ELSE <<>>
                IN  /\ page' = page + 1
                    /\ loading' = IF reqs = <<>> THEN loading ELSE TRUE
                    /\ net' = net (+) Sent(reqs)
           ELSE UNCHANGED <<page, loading, net>>
        /\ alert' = "none"
        /\ ev' = Event("input", "", 0, <<>>)
        /\ clicks < MaxClicks
        /\ clicks' = clicks + 1
        /\ UNCHANGED <<token, loginFlag, isLoggedIn, loginError, activeTab,
                       items, stats, search, hasMore, timer, adds, db, nextId,
                       sinceSearch, edits>>

\* fetchItems after the await: res.data.length < limit
IsShortPage(data) == Len(data) < limit

\* const offset = pageNum * limit
Offset(pageNum) == pageNum * limit

ListResponse ==
    \E req \in OfKind(net, "list"), status \in Statuses :
        LET data == ListRows(db, req.tab, req.search, limit, Offset(req.page))
        IN  /\ alert' = "none"
            /\ ev' = Event("response", req.kind, status, <<>>)
            /\ UNCHANGED <<db, nextId, edits, clicks>>
            /\ IF IsAuthFailure(status)
               THEN ForcedLogout
               ELSE /\ net' = Remove(net, req)
                    /\ loading' = FALSE
                    /\ IF status = 200
                       THEN /\ hasMore' = IF IsShortPage(data) THEN FALSE
                                          ELSE hasMore
                            /\ items' = IF req.reset THEN data
                                        ELSE items \o data
                       ELSE UNCHANGED <<hasMore, items>>
                    /\ UNCHANGED <<token, loginFlag, isLoggedIn, loginError,
                                   activeTab, stats, search, page, timer,
                                   adds, sinceSearch>>

StatsResponse ==
    \E req \in OfKind(net, "stats"), status \in Statuses :
            /\ alert' = "none"
            /\ ev' = Event("response", req.kind, status, <<>>)
            /\ UNCHANGED <<db, nextId, edits, clicks>>
            /\ IF IsAuthFailure(status)
               THEN ForcedLogout
               ELSE /\ net' = Remove(net, req)
                    /\ stats' = IF status = 200 THEN StatsOf(db, req.tab)
                                ELSE stats
                    /\ UNCHANGED <<token, loginFlag, isLoggedIn, loginError,
                                   activeTab, items, search, loading, page,
                                   hasMore, timer, adds, sinceSearch>>

\* ------------------------------------------------------ mutation dispatcher
CreateReq(tok, tab, b, i) ==
    [NoReq EXCEPT !.kind = "create", !.tab = tab, !.batch = b, !.idx = i,
                  !.auth = AuthHeader(tok)]
UpdateReq(tok, tab, id, field, value) ==
    [NoReq EXCEPT !.kind = "update", !.tab = tab, !.id = id, !.field = field,
                  !.value = value, !.auth = AuthHeader(tok)]
DeleteReq(tok, tab, id) ==
    [NoReq EXCEPT !.kind = "delete", !.tab = tab, !.id = id,
                  !.auth = AuthHeader(tok)]
ReturnReq(tok, tab, id) ==
    [NoReq EXCEPT !.kind = "return", !.tab = tab, !.id = id,
                  !.auth = AuthHeader(tok)]

\* An addItems call awaiting Promise.all: the tab its closure captured, the
\* number of promises and the results so far, by position.
NoRow == NewRow(0, "")
Batch(tab, n) == [open |-> TRUE, tab |-> tab, n |-> n,
                  got |-> [i \in 1..n |-> NoRow]]
Settled == [open |-> FALSE, tab |-> "", n |-> 0, got |-> <<>>]
Complete(b) == \A i \in 1..b.n : b.got[i] # NoRow

\* addItems' validation of the parsed count
RejectsCount(count) == isNaN(count) \/ count.val <= 0

AddItems ==
    \E countStr \in PromptInputs \cup {NullInput}, confirmed \in BOOLEAN :
        LET count == parseInt(countStr)
            b == Len(adds) + 1
        IN  /\ isLoggedIn
            /\ clicks < MaxClicks
            /\ clicks' = clicks + 1
            /\ ev' = Event("addItems", "", 0, countStr)
            /\ UNCHANGED <<token, loginFlag, isLoggedIn, loginError, activeTab,
                           items, stats, search, page, hasMore, timer, db,
                           nextId, sinceSearch, edits>>
            /\ IF countStr = NullInput
               THEN /\ alert' = "none"
                    /\ UNCHANGED <<loading, adds, net>>
               ELSE IF RejectsCount(count)
               THEN /\ alert' = "validation"
                    /\ UNCHANGED <<loading, adds, net>>
               ELSE IF count.val > ConfirmAbove /\ ~confirmed
               THEN /\ alert' = "none"
                    /\ UNCHANGED <<loading, adds, net>>
               ELSE /\ count.val <= MaxCreate
                    /\ Len(adds) < MaxAdds
                    /\ BagCardinality(net) + count.val <= MaxInFlight
                    /\ alert' = "none"
                    /\ loading' = TRUE
                    /\ adds' = Append(adds, Batch(activeTab, count.val))
                    /\ net' = net (+) Sent([i \in 1..count.val |->
                                  CreateReq(token, activeTab, b, i)])

\* The catch block as it would be if it kept the rows created so far.
AfterRejectKeepsCreated(prev, got) ==
    prev \o SelectSeq(got, LAMBDA r : r # NoRow)

\* items after Promise.all rejects: the catch block only alerts, so the rows
\* already created (got) are dropped.
AfterReject(prev, got) == prev

\* A create response.  A 401/403 reloads the page from the interceptor; the
\* rejection then reaches the catch block in the same task, which alerts.
CreateResponseOf(req, status) ==
    LET b == adds[req.batch]
        row == NewRow(nextId, req.tab)
        got == [b.got EXCEPT ![req.idx] = row]
        nb == [b EXCEPT !.got = got]
    IN  /\ req \in OfKind(net, "create")
        /\ ev' = Event("response", req.kind, status, <<>>)
        /\ UNCHANGED <<edits, clicks>>
        /\ IF IsAuthFailure(status)
           THEN /\ ForcedLogout
                /\ alert' = IF b.open THEN "failure" ELSE "none"
                /\ UNCHANGED <<db, nextId>>
           ELSE /\ UNCHANGED <<token, loginFlag, isLoggedIn, loginError,
                               activeTab, stats, search, page, hasMore, timer,
                               sinceSearch>>
                /\ IF status = 200
                   THEN /\ nextId <= MaxId
                        /\ db' = Append(db, row)
                        /\ nextId' = nextId + 1
                        /\ alert' = "none"
                        /\ IF b.open /\ Complete(nb)
                           THEN /\ items' = items \o got
                                /\ net' = Remove(net, req)
                                          (+) Sent(fetchStats(token, b.tab))
                                /\ loading' = FALSE
                                /\ adds' = [adds EXCEPT ![req.batch] = Settled]
                           ELSE /\ net' = Remove(net, req)
                                /\ adds' = IF b.open
                                           THEN [adds EXCEPT ![req.batch] = nb]
                                           ELSE adds
                                /\ UNCHANGED <<items, loading>>
                   ELSE /\ UNCHANGED <<db, nextId>>
                        /\ items' = AfterReject(items, b.got)
                        /\ net' = Remove(net, req)
                        /\ IF b.open
                           THEN /\ alert' = "failure"
                                /\ loading' = FALSE
                                /\ adds' = [adds EXCEPT ![req.batch] = Settled]
                           ELSE /\ alert' = "none"
                                /\ UNCHANGED <<loading, adds>>

CreateResponse ==
    \E req \in OfKind(net, "create"), status \in Statuses :
        CreateResponseOf(req, status)

\* The record of an updateItem call: what it sent and how the request ended
\* ("sent" while it is pending or once a reload has abandoned it).
Edit(id, field, value) ==
    [id |-> id, field |-> field, value |-> value, status |-> "sent"]
Settle(log, req, outcome) ==
    LET open == {i \in 1..Len(log) :
                    /\ log[i].status = "sent"
                    /\ log[i].id = req.id
                    /\ log[i].field = req.field
                    /\ log[i].value = req.value}
    IN  IF open = {} THEN log
        ELSE [log EXCEPT ![CHOOSE i \in open : \A j \in open : i <= j].status
                            = outcome]

\* items.map(item => item.id === id ? { ...item, [field]: value } : item)
PatchRows(rows, id, field, value) ==
    [i \in 1..Len(rows) |->
        IF rows[i].id = id THEN [rows[i] EXCEPT !.vals[field] = value]
        ELSE rows[i]]

\* The stats test as it would be with sold_date left out of the list.
TriggersStatsPricesOnly(field) == field \in {"purchase_price", "sale_price"}

\* ['purchase_price', 'sale_price', 'sold_date'].includes(field)
TriggersStats(field) == field \in StatsFields

UpdateItemOf(id, field, value) ==
    /\ isLoggedIn
    /\ clicks < MaxClicks
    /\ Len(edits) < MaxEdits
    /\ BagCardinality(net) < MaxInFlight
    /\ \E i \in 1..Len(items) : items[i].id = id /\ items[i].vals[field] # value
    /\ items' = PatchRows(items, id, field, value)
    /\ net' = net (+) One(UpdateReq(token, activeTab, id, field, value))
    /\ edits' = Append(edits, Edit(id, field, value))
    /\ clicks' = clicks + 1
    /\ alert' = "none"
    /\ ev' = Event("input", "", 0, <<>>)
    /\ UNCHANGED <<token, loginFlag, isLoggedIn, loginError, activeTab, stats,
                   search, loading, page, hasMore, timer, adds, db, nextId,
                   sinceSearch>>

UpdateItem ==
    \E id \in 1..MaxId, field \in Fields, value \in Values :
        UpdateItemOf(id, field, value)

\* The catch block as it would be if it cleared the edited field again.
AfterUpdateErrorClears(rows, req) == PatchRows(rows, req.id, req.field, "")

\* items after a failed update: the catch block only logs the error.
AfterUpdateError(rows, req) == rows

UpdateResponseOf(req, status) ==
    /\ req \in OfKind(net, "update")
    /\ alert' = "none"
    /\ ev' = Event("response", req.kind, status, <<>>)
    /\ edits' = Settle(edits, req, IF status = 200 THEN "ok" ELSE "failed")
    /\ UNCHANGED clicks
    /\ IF IsAuthFailure(status)
       THEN /\ ForcedLogout
            /\ UNCHANGED <<db, nextId>>
       ELSE /\ UNCHANGED <<token, loginFlag, isLoggedIn, loginError, activeTab,
                           stats, search, loading, page, hasMore, timer,
                           adds, sinceSearch, nextId>>
            /\ IF status = 200
               THEN /\ HasId(db, req.id)
                    /\ db' = DbUpdate(db, req.id, req.field, req.value)
                    /\ net' = Remove(net, req)
                              (+) Sent(IF TriggersStats(req.field)
                                       THEN fetchStats(token, req.tab)
                                       ELSE <<>>)
                    /\ UNCHANGED items
               ELSE /\ net' = Remove(net, req)
                    /\ items' = AfterUpdateError(items, req)
                    /\ UNCHANGED db

UpdateResponse ==
    \E req \in OfKind(net, "update"), status \in Statuses :
        UpdateResponseOf(req, status)

Trim(v) == IF v = " " THEN "" ELSE v
\* item.sold_date && item.sold_date.trim() !== ''
IsSold(row) == row.vals["sold_date"] # "" /\ Trim(row.vals["sold_date"]) # ""

\* The filter as it would be with the comparison inverted.
RemoveIdInverted(rows, id) == SelectSeq(rows, LAMBDA r : r.id = id)

\* prev.filter(i => i.id !== id)
RemoveId(rows, id) == SelectSeq(rows, LAMBDA r : r.id # id)

\* The delete button of an unsold row, and the answer to window.confirm.
DeleteItemOf(id, confirmed) ==
    /\ isLoggedIn
    /\ clicks < MaxClicks
    /\ BagCardinality(net) < MaxInFlight
    /\ \E i \in 1..Len(items) : items[i].id = id /\ ~IsSold(items[i])
    /\ net' = IF confirmed THEN net (+) One(DeleteReq(token, activeTab, id))
              ELSE net
    /\ clicks' = clicks + 1
    /\ alert' = "none"
    /\ ev' = Event("deleteItem",
                IF confirmed THEN "confirmed" ELSE "declined", 0, <<>>)
    /\ UNCHANGED <<token, loginFlag, isLoggedIn, loginError, activeTab, items,
                   stats, search, loading, page, hasMore, timer, adds, db,
                   nextId, sinceSearch, edits>>

DeleteItem ==
    \E id \in 1..MaxId, confirmed \in BOOLEAN : DeleteItemOf(id, confirmed)

DeleteResponseOf(req, status) ==
    /\ req \in OfKind(net, "delete")
    /\ alert' = "none"
    /\ ev' = Event("response", req.kind, status, <<>>)
    /\ UNCHANGED <<edits, clicks>>
    /\ IF IsAuthFailure(status)
       THEN /\ ForcedLogout
            /\ UNCHANGED <<db, nextId>>
       ELSE /\ UNCHANGED <<token, loginFlag, isLoggedIn, loginError, activeTab,
                           stats, search, loading, page, hasMore, timer, adds,
                           sinceSearch, nextId>>
            /\ IF status = 200
               THEN /\ HasId(db, req.id)
                    /\ db' = DbDelete(db, req.id)
                    /\ items' = RemoveId(items, req.id)
                    /\ net' = Remove(net, req)
                              (+) Sent(fetchStats(token, req.tab))
               ELSE /\ net' = Remove(net, req)
                    /\ UNCHANGED <<db, items>>

DeleteResponse ==
    \E req \in OfKind(net, "delete"), status \in Statuses :
        DeleteResponseOf(req, status)

\* prev.map(i => i.id === id ? res.data : i)
ReplaceRow(rows, id, data) ==
    [i \in 1..Len(rows) |-> IF rows[i].id = id THEN data ELSE rows[i]]

\* The return button of a sold row, and the answer to window.confirm.
ReturnItemOf(id, confirmed) ==
    /\ isLoggedIn
    /\ clicks < MaxClicks
    /\ BagCardinality(net) < MaxInFlight
    /\ \E i \in 1..Len(items) : items[i].id = id /\ IsSold(items[i])
    /\ net' = IF confirmed THEN net (+) One(ReturnReq(token, activeTab, id))
              ELSE net
    /\ clicks' = clicks + 1
    /\ alert' = "none"
    /\ ev' = Event("input", "", 0, <<>>)
    /\ UNCHANGED <<token, loginFlag, isLoggedIn, loginError, activeTab, items,
                   stats, search, loading, page, hasMore, timer, adds, db,
                   nextId, sinceSearch, edits>>

ReturnItem ==
    \E id \in 1..MaxId, confirmed \in BOOLEAN : ReturnItemOf(id, confirmed)

ReturnResponseOf(req, status) ==
    /\ req \in OfKind(net, "return")
    /\ alert' = "none"
    /\ ev' = Event("response", req.kind, status, <<>>)
    /\ UNCHANGED <<edits, clicks>>
    /\ IF IsAuthFailure(status)
       THEN /\ ForcedLogout
            /\ UNCHANGED <<db, nextId>>
       ELSE /\ UNCHANGED <<token, loginFlag, isLoggedIn, loginError, activeTab,
                           stats, search, loading, page, hasMore, timer, adds,
                           sinceSearch, nextId>>
            /\ IF status = 200
               THEN /\ HasId(db, req.id)
                    /\ db' = DbReturn(db, req.id)
                    /\ items' = ReplaceRow(items, req.id, RowOf(db', req.id))
                    /\ net' = Remove(net, req)
                              (+) Sent(fetchStats(token, req.tab))
               ELSE /\ net' = Remove(net, req)
                    /\ UNCHANGED <<db, items>>

ReturnResponse ==
    \E req \in OfKind(net, "return"), status \in Statuses :
        ReturnResponseOf(req, status)

Next ==
    \/ HandleLogin
    \/ LoginResponse
    \/ HandleLogout
    \/ SetActiveTab
    \/ SetSearch
    \/ Tick
    \/ DebounceFire
    \/ Intersect
    \/ ListResponse
    \/ StatsResponse
    \/ AddItems
    \/ CreateResponse
    \/ UpdateItem
    \/ UpdateResponse
    \/ DeleteItem
    \/ DeleteResponse
    \/ ReturnItem
    \/ ReturnResponse

Spec == Init /\ [][Next]_vars

\* ================================================================== claims
\* Requests a step puts in flight, and requests a step takes out of flight.
Issued(k) == {r \in OfKind(net', k) : CopiesIn(r, net') > CopiesIn(r, net)}
Answered(k) == {r \in OfKind(net, k) : CopiesIn(r, net') < CopiesIn(r, net)}
IsResponse(k) == ev'.op = "response" /\ ev'.kind = k
\* A tab button pressed in the main view (a reload never keeps isLoggedIn).
TabSwitched == isLoggedIn /\ isLoggedIn' /\ activeTab' # activeTab

\* C1: whenever the user switches activeTab while logged in, in any
\* reachable state, the item list is cleared, page is 0, hasMore is true, and
\* a list request for page 0 of the new tab and a stats request for the new
\* tab are both issued.
C1_TabSwitchRefetches ==
    [][TabSwitched =>
        /\ items' = <<>>
        /\ page' = 0
        /\ hasMore'
        /\ \E r \in Issued("list") : r.tab = activeTab' /\ r.page = 0
        /\ \E r \in Issued("stats") : r.tab = activeTab']_vars

\* C2: in every reachable state at most one list request is in flight.
C2_SingleListInFlight == InFlight(net, "list") <= 1

\* C3 as stated: a 401 or 403 response to any request removes the token and
\* the login flag and leaves the login view; a response with any other
\* status leaves the stored credentials unchanged.
C3_OnlyAuthFailuresTouchStorage ==
    [][ev'.op = "response" =>
        IF ev'.status \in {401, 403}
        THEN token' = NoToken /\ ~loginFlag' /\ ~isLoggedIn'
        ELSE token' = token /\ loginFlag' = loginFlag]_vars

\* C3 as amended: a 401 or 403 response to any request removes the token and
\* the login flag and reloads the page into the login view; a successful
\* login response stores the returned token and the flag; every other
\* response leaves the stored credentials unchanged.
C3_AuthFailureLogsOut ==
    [][ev'.op = "response" =>
        IF ev'.status \in {401, 403}
        THEN /\ token' = NoToken /\ ~loginFlag' /\ ~isLoggedIn'
             /\ items' = <<>> /\ net' = EmptyBag /\ ~timer'.armed
        ELSE IF ev'.kind = "login" /\ ev'.status = 200
        THEN token' \in ResponseTokens /\ loginFlag'
        ELSE token' = token /\ loginFlag' = loginFlag]_vars

\* A 403 answer to an update request has just logged the user out.
C3_Witness ==
    /\ ev.op = "response" /\ ev.kind = "update" /\ ev.status = 403
    /\ ~isLoggedIn /\ token = NoToken /\ ~loginFlag

\* C4: a change of the search text issues no request itself and restarts
\* the 500 ms timer; the debounce callback, the only caller of fetchItems on
\* behalf of the search text, runs only once 500 ms have passed since the
\* last change of the search text.
C4_DebounceWaits ==
    [][/\ (isLoggedIn /\ isLoggedIn' /\ search' # search) =>
            /\ net' = net
            /\ timer'.armed /\ timer'.left = DebounceMs
       /\ ev'.op = "debounce" =>
            /\ timer.armed
            /\ sinceSearch >= DebounceMs]_vars

\* The timer set by a keystroke has fired and fetched the typed text.
C4_Witness ==
    /\ ev.op = "debounce"
    /\ search # ""
    /\ \E r \in OfKind(net, "list") : r.search = search /\ r.page = 0

\* C5: a list request for a page greater than 0 is issued only while hasMore
\* is true, and once hasMore is false only a tab change or a firing of the
\* search debounce sets it back to true within the life of the page.
C5_NoPageFetchAfterShortPage ==
    [][/\ (\E r \in Issued("list") : r.page > 0) => hasMore
       /\ (~hasMore /\ hasMore' /\ isLoggedIn') =>
            (activeTab' # activeTab \/ ev'.op = "debounce")]_vars

\* A short page has been applied after a scroll and the list is at rest.
C5_Witness ==
    /\ isLoggedIn /\ ~hasMore /\ ~loading
    /\ page > 0 /\ items # <<>>
    /\ InFlight(net, "list") = 0

\* C6: updateItem patches the matching row at once, while its request is
\* still in flight, for every field, and issues no stats request itself; the
\* continuation of a successful update issues a stats request exactly when
\* the field is purchase_price, sale_price or sold_date.
C6_UpdatePatchesAndRefreshes ==
    [][/\ \A r \in Issued("update") :
            /\ Len(items') = Len(items)
            /\ \E i \in 1..Len(items) : items[i].id = r.id
            /\ \A i \in 1..Len(items) :
                  IF items[i].id = r.id
                  THEN /\ items'[i].vals[r.field] = r.value
                       /\ \A f \in Fields \ {r.field} :
                             items'[i].vals[f] = items[i].vals[f]
                  ELSE items'[i] = items[i]
            /\ Issued("stats") = {}
       /\ (IsResponse("update") /\ ev'.status = 200) =>
            \A r \in Answered("update") :
                IF r.field \in {"purchase_price", "sale_price", "sold_date"}
                THEN \E q \in Issued("stats") : q.tab = r.tab
                ELSE Issued("stats") = {}]_vars

\* A successful sold_date update has just issued its stats request.
C6_Witness ==
    /\ ev.op = "response" /\ ev.kind = "update" /\ ev.status = 200
    /\ \E i \in 1..Len(db) : db[i].id # 1 /\ db[i].vals["sold_date"] = "x"
    /\ InFlight(net, "stats") > 0

\* A prompt text that is a whole decimal number: optional blanks, an
\* optional sign, digits, and nothing else.
RECURSIVE AllDigits(_)
AllDigits(s) == s = <<>> \/ (IsDigit(Head(s)) /\ AllDigits(Tail(s)))
IsNumeric(str) ==
    LET s1 == SkipSpaces(str)
        s2 == IF s1 # <<>> /\ Head(s1) \in {"-", "+"} THEN Tail(s1) ELSE s1
    IN  s2 # <<>> /\ AllDigits(s2)
InvalidCount(str) == ~IsNumeric(str) \/ parseInt(str).val <= 0

\* C7: for every non-positive or non-numeric count entered at the prompt,
\* addItems shows the validation alert, issues no create and no stats
\* request, and leaves items and loading unchanged.
C7_RejectsInvalidCounts ==
    [][(ev'.op = "addItems" /\ ev'.input # NullInput
            /\ InvalidCount(ev'.input)) =>
        /\ alert' = "validation"
        /\ net' = net
        /\ items' = items
        /\ loading' = loading]_vars

\* C8 as stated: a successful delete removes exactly the rows of that id and
\* keeps the order of the others; a declined confirmation or a failed
\* request leaves the list unchanged and issues no stats request.
C8_DeleteFrame ==
    [][/\ (IsResponse("delete") /\ ev'.status = 200) =>
            \A r \in Answered("delete") :
                /\ items' = SelectSeq(items, LAMBDA x : x.id # r.id)
                /\ \E q \in Issued("stats") : TRUE
       /\ (IsResponse("delete") /\ ev'.status # 200) =>
            items' = items /\ Issued("stats") = {}
       /\ (ev'.op = "deleteItem" /\ ev'.kind = "declined") =>
            items' = items /\ net' = net]_vars

\* C8 as amended: as stated, except that the failure case covers every
\* failure other than a 401 or 403 response, which logs the user out.
C8_DeleteFrameUnlessLoggedOut ==
    [][/\ (IsResponse("delete") /\ ev'.status = 200) =>
            \A r \in Answered("delete") :
                /\ items' = SelectSeq(items, LAMBDA x : x.id # r.id)
                /\ \E q \in Issued("stats") : TRUE
       /\ (IsResponse("delete") /\ ev'.status \notin {200, 401, 403}) =>
            items' = items /\ Issued("stats") = {}
       /\ (ev'.op = "deleteItem" /\ ev'.kind = "declined") =>
            items' = items /\ net' = net]_vars

\* A successful delete has removed a row from a list that keeps others.
C8_Witness ==
    /\ ev.op = "response" /\ ev.kind = "delete" /\ ev.status = 200
    /\ Len(db) < 3
    /\ items # <<>>
    /\ \A i \in 1..Len(items) : HasId(db, items[i].id)

\* C9: when a login request fails, whatever the cause, no token is stored,
\* the login view stays, and the error message is shown on it.
C9_LoginFailureShowsError ==
    [][(IsResponse("login") /\ ev'.status # 200) =>
        /\ token' = NoToken
        /\ ~isLoggedIn'
        /\ loginError']_vars

\* C10, read with the single-flight guard (a firing while a list request is
\* pending may be dropped): when the debounce timer fires, page is 0, the
\* list is empty and hasMore is true; when it fires with no fetch pending a
\* list request for page 0 in reset mode is issued; no stats request is
\* issued.
C10_DebounceResetsAndRefetches ==
    [][ev'.op = "debounce" =>
        /\ page' = 0
        /\ items' = <<>>
        /\ hasMore'
        /\ ~loading => \E r \in Issued("list") : r.page = 0 /\ r.reset
        /\ Issued("stats") = {}]_vars

\* C11: every list request issued, by a tab change, by the debounce timer or
\* by a page increment, carries the tab and the search text that are current
\* when it is issued, and the current page as pageNum (its offset is
\* pageNum * limit).
C11_ListRequestIsCurrent ==
    [][\A r \in Issued("list") :
        /\ r.tab = activeTab'
        /\ r.search = search'
        /\ r.page = page'
        /\ Offset(r.page) = page' * limit]_vars

\* C12 as stated: when a create request of an addItems call fails, whatever
\* the cause, the list is not changed by that call, the failure alert is
\* shown, no stats request is issued and loading is cleared.
C12_FailedCreateAddsNothing ==
    [][\A r \in Answered("create") :
        (IsResponse("create") /\ ev'.status # 200 /\ adds[r.batch].open) =>
            /\ items' = items
            /\ alert' = "failure"
            /\ Issued("stats") = {}
            /\ ~loading']_vars

\* C12, amended: when a create request of an addItems call fails for a cause
\* other than a 401 or 403 response, the list is not changed by that call
\* (neither by the failure nor by the responses that follow it), the
\* failure alert is shown, no stats request is issued and loading is
\* cleared.
C12_RejectedBatchAddsNothing ==
    [][\A r \in Answered("create") :
        /\ (IsResponse("create") /\ ev'.status # 200
                /\ ~IsAuthFailure(ev'.status) /\ adds[r.batch].open) =>
            /\ items' = items
            /\ alert' = "failure"
            /\ Issued("stats") = {}
            /\ ~loading'
        /\ (IsResponse("create") /\ ~IsAuthFailure(ev'.status)
                /\ ~adds[r.batch].open) =>
            /\ items' = items
            /\ alert' = "none"
            /\ Issued("stats") = {}]_vars

\* A batch of two has just been rejected after one of its rows was created
\* on the backend: the row is missing from the list.
C12_Witness ==
    /\ ev.op = "response" /\ ev.kind = "create" /\ ev.status = 500
    /\ alert = "failure"
    /\ ~loading
    /\ items # <<>>
    /\ \E i \in 1..Len(db) : db[i].id >= 4
    /\ \A i \in 1..Len(items) : items[i].id < 4

\* C13: in every state with no list request in flight (and no debounce
\* timer pending, no local add, edit, delete or return made), the visible
\* list is the in-order concatenation of pages 0..k-1, for some k, of the
\* rows the backend holds for the current tab and search text.
C13_ListIsPagesOfCurrentQuery ==
    (/\ isLoggedIn
     /\ InFlight(net, "list") = 0
     /\ ~timer.armed
     /\ db = InitialDb /\ edits = <<>> /\ adds = <<>>)
    => \E k \in 0..(MaxPage + 1) :
            items = ListRows(db, activeTab, search, k * limit, 0)

\* C14: page is raised only in a state where hasMore is true and no list
\* request is in flight; it rises by exactly 1, and the same step issues a
\* list request for the new page in append mode.
C14_SentinelIncrement ==
    [][page' > page =>
        /\ hasMore
        /\ InFlight(net, "list") = 0
        /\ page' = page + 1
        /\ \E r \in Issued("list") : r.page = page' /\ ~r.reset]_vars

\* C15 as stated: when an update request fails, whatever the cause, the
\* list keeps the patched row, nothing else in the client state changes and
\* no stats request is issued.
C15_FailedUpdateKeepsPatch ==
    [][\A r \in Answered("update") :
        (IsResponse("update") /\ ev'.status # 200) =>
            /\ items' = items
            /\ Issued("stats") = {}
            /\ net' = Remove(net, r)
            /\ UNCHANGED <<token, loginFlag, isLoggedIn, loginError,
                           activeTab, stats, search, loading, page, hasMore,
                           timer, adds, db, nextId>>]_vars

\* C15, amended: when an update request fails for a cause other than a 401
\* or 403 response, the list keeps the patched row, nothing else in the
\* client state changes and no stats request is issued.
C15_FailedUpdateKeepsPatchUnlessLoggedOut ==
    [][\A r \in Answered("update") :
        (IsResponse("update") /\ ev'.status # 200
            /\ ~IsAuthFailure(ev'.status)) =>
            /\ items' = items
            /\ Issued("stats") = {}
            /\ net' = Remove(net, r)
            /\ UNCHANGED <<token, loginFlag, isLoggedIn, loginError,
                           activeTab, stats, search, loading, page, hasMore,
                           timer, adds, db, nextId>>]_vars

\* An update has just failed with a server error and a row of the list
\* still shows a value the backend does not hold.
C15_Witness ==
    /\ isLoggedIn
    /\ ev.op = "response" /\ ev.kind = "update" /\ ev.status = 500
    /\ edits # <<>>
    /\ \E i \in 1..Len(items), f \in Fields :
            /\ HasId(db, items[i].id)
            /\ items[i].vals[f] = "x"
            /\ RowOf(db, items[i].id).vals[f] = ""

\* C16, in its finite form: a list response clears loading whatever its
\* status; loading is true only while a list or create request is pending,
\* so it cannot stay true once every request has completed; and a list-fetch
\* trigger (tab change, debounce firing, page increment) that comes while
\* loading is false is served, that is, it issues a list request.
C16_LoadingClearsAndTriggersAreServed ==
    [][/\ IsResponse("list") => ~loading'
       /\ loading' => InFlight(net', "list") + InFlight(net', "create") > 0
       /\ (~loading /\ (TabSwitched \/ ev'.op = "debounce" \/ page' > page))
            => Issued("list") # {}]_vars

\* C17: the backend hands out each id once (nextId only grows), and the
\* visible list never holds two rows with the same id.
C17_NoDuplicateIds ==
    \A i, j \in 1..Len(items) : i # j => items[i].id # items[j].id

\* C18: when two or more updateItem calls were made for a row and field and
\* all their requests succeeded, then with no request in flight the backend
\* holds for that field the value the local row shows.
C18_BackendMatchesLocal ==
    \A id \in 1..MaxId, f \in Fields :
        LET mine == SelectSeq(edits, LAMBDA e : e.id = id /\ e.field = f)
        IN  (/\ isLoggedIn
             /\ Len(mine) >= 2
             /\ \A k \in 1..Len(mine) : mine[k].status = "ok"
             /\ net = EmptyBag
             /\ HasId(db, id))
            => \A i \in 1..Len(items) :
                    items[i].id = id =>
                        items[i].vals[f] = RowOf(db, id).vals[f]

\* C19 as stated: after a successful stats response that leaves no stats
\* request in flight, the snapshot shown is the one for the active tab.
C19_StatsAreForActiveTab ==
    [][(/\ IsResponse("stats") /\ ev'.status = 200
        /\ isLoggedIn'
        /\ InFlight(net', "stats") = 0)
        => stats'.tab = activeTab']_vars

\* C19, amended: every tab change issues a stats request for the new tab;
\* each successful stats response replaces the snapshot wholesale with the
\* backend's counts for the tab its request carried; and nothing else
\* changes the snapshot except a page load, which empties it.  The snapshot
\* shown is therefore that of the response that landed last.
C19_StatsFollowLastResponse ==
    [][/\ TabSwitched => \E r \in Issued("stats") : r.tab = activeTab'
       /\ \A r \in Answered("stats") :
            (IsResponse("stats") /\ ev'.status = 200)
                => stats' = StatsOf(db, r.tab)
       /\ stats' # stats =>
            \/ IsResponse("stats") /\ ev'.status = 200
            \/ stats' = NoStats]_vars

\* The stats response of the previous tab has landed last: no stats request
\* is in flight and the snapshot shown is not the active tab's.
C19_Witness ==
    /\ isLoggedIn
    /\ ev.op = "response" /\ ev.kind = "stats" /\ ev.status = 200
    /\ InFlight(net, "stats") = 0
    /\ stats # NoStats
    /\ stats.tab # activeTab

====
